---- MODULE Spec2Model ----
(***************************************************************************)
(* CivicMind API gateway (independent-services/civicmind-api-gateway).     *)
(*                                                                         *)
(* The gateway keeps a static service registry (CIVIC_SERVICES) and a      *)
(* module-level health cache (service_health_cache).  One asyncio event    *)
(* loop runs the handlers; a handler runs uninterrupted between two awaits, *)
(* so every action below is one await-to-await segment of a handler.       *)
(*                                                                         *)
(* One client request (an analyze, or a health, metrics or forced-check    *)
(* request) and one refresh are in flight at a time; they interleave with  *)
(* each other at every await.                                              *)
(*                                                                         *)
(* Text is modelled as a sequence of one-character strings so that         *)
(* str.lower(), len() and the substring test `word in text` are computed   *)
(* character by character, as Python computes them.  Wall-clock readings   *)
(* (utcnow, elapsed time) decide no branch and are kept symbolic.          *)
(***************************************************************************)
EXTENDS Integers, Sequences, FiniteSets, TLC

VARIABLES
    registry,              \* the deployed CIVIC_SERVICES dict
    service_health_cache,  \* dict: service name -> last health snapshot
    started,               \* startup_event has completed
    refresh,               \* the running update_service_health_cache(), if any
    req,                   \* the analyze request being handled, if any
    last_analyzed,         \* log: the request answered last and its category
    arg,                   \* classify_issue() call frame: the argument
    ret,                   \* classify_issue() call frame: the return value
    intro,                 \* the health / metrics / forced-check request, if any
    parking,               \* parking service: the POST /analyze being handled
    other,                 \* a second analyze request being handled, if any
    now,                   \* the wall clock (datetime.utcnow), in ticks
    orch                   \* orchestrator: the CivicState in the agent graph

vars ==
    << registry, service_health_cache, started, refresh, req, last_analyzed,
       arg, ret, intro, parking, other, now, orch >>

---------------------------------------------------------------------------
(* Bounds of the model.                                                    *)

\* At most this many backends are non-healthy in the cache at one time.
MaxUnhealthy ==
    1

\* Registries of the mis-deployment specification hold at most this many
\* of the shipped services.
MaxRegistered ==
    1

\* The clock is followed for this many ticks.
MaxClock ==
    2

---------------------------------------------------------------------------
(* Service configuration, main.py 25-88.                                   *)

SERVICE_NAME ==
    "api-gateway"

SERVICE_VERSION ==
    "1.0.0"

SERVICE_PORT ==
    8300

Descriptor(url, name) ==
    [ url |-> url, name |-> name, version |-> "1.0.0",
      health_endpoint |-> "/health", analyze_endpoint |-> "/analyze" ]

\* The table shipped without the entry of the last category.
CIVIC_SERVICES_without_environmental ==
    [ parking          |-> Descriptor("http://localhost:9300", "parking-service"),
      permits          |-> Descriptor("http://localhost:9301", "permits-service"),
      noise            |-> Descriptor("http://localhost:9302", "noise-service"),
      infrastructure   |-> Descriptor("http://localhost:9303", "infrastructure-service"),
      business         |-> Descriptor("http://localhost:9304", "business-service"),
      religious_events |-> Descriptor("http://localhost:9305", "religious-events-service"),
      neighbor_dispute |-> Descriptor("http://localhost:9306", "neighbor-dispute-service") ]

CIVIC_SERVICES ==
    [ parking          |-> Descriptor("http://localhost:9300", "parking-service"),
      permits          |-> Descriptor("http://localhost:9301", "permits-service"),
      noise            |-> Descriptor("http://localhost:9302", "noise-service"),
      infrastructure   |-> Descriptor("http://localhost:9303", "infrastructure-service"),
      business         |-> Descriptor("http://localhost:9304", "business-service"),
      religious_events |-> Descriptor("http://localhost:9305", "religious-events-service"),
      neighbor_dispute |-> Descriptor("http://localhost:9306", "neighbor-dispute-service"),
      environmental    |-> Descriptor("http://localhost:9307", "environmental-service") ]

\* Iteration order of the dict literal (insertion order).
ServiceOrder ==
    << "parking", "permits", "noise", "infrastructure", "business",
       "religious_events", "neighbor_dispute", "environmental" >>

\* The loop leaving out the last service of the dict.
ItemsButLast(reg) ==
    LET items == SelectSeq(ServiceOrder, LAMBDA name : name \in DOMAIN reg)
    IN SubSeq(items, 1, Len(items) - 1)

\* CIVIC_SERVICES.items() of the deployed registry, in dict order.
Items(reg) ==
    SelectSeq(ServiceOrder, LAMBDA name : name \in DOMAIN reg)

\* dict.get(key, default)
Get(d, key, default) ==
    IF key \in DOMAIN d THEN d[key] ELSE default

---------------------------------------------------------------------------
(* Text.                                                                   *)

UpperToLower ==
    ("A" :> "a") @@ ("B" :> "b") @@ ("C" :> "c") @@ ("D" :> "d") @@
    ("E" :> "e") @@ ("F" :> "f") @@ ("G" :> "g") @@ ("H" :> "h") @@
    ("I" :> "i") @@ ("J" :> "j") @@ ("K" :> "k") @@ ("L" :> "l") @@
    ("M" :> "m") @@ ("N" :> "n") @@ ("O" :> "o") @@ ("P" :> "p") @@
    ("Q" :> "q") @@ ("R" :> "r") @@ ("S" :> "s") @@ ("T" :> "t") @@
    ("U" :> "u") @@ ("V" :> "v") @@ ("W" :> "w") @@ ("X" :> "x") @@
    ("Y" :> "y") @@ ("Z" :> "z")

\* str.lower()
Lower(text) ==
    [ i \in DOMAIN text |->
        IF text[i] \in DOMAIN UpperToLower THEN UpperToLower[text[i]] ELSE text[i] ]

\* `word in text`: word occurs in text as a contiguous substring
Contains(text, word) ==
    \E i \in 1 .. (Len(text) - Len(word) + 1) :
        SubSeq(text, i, i + Len(word) - 1) = word

\* any(word in text for word in words)
AnyWordIn(words, text) ==
    \E k \in DOMAIN words : Contains(text, words[k])

---------------------------------------------------------------------------
(* classify_issue, main.py 165-222.  The keyword lists of the eight        *)
(* branches, in the order the branches are written.                        *)

\* The parking list without the keyword it shares with the permits list.
parking_words_without_permit ==
  << <<"p","a","r","k">>,
     <<"d","r","i","v","e","w","a","y">>,
     <<"b","l","o","c","k">>,
     <<"c","a","r">>,
     <<"v","e","h","i","c","l","e">>,
     <<"m","e","t","e","r">> >>

\* park, driveway, block, car, vehicle, permit, meter
parking_words ==
  << <<"p","a","r","k">>,
     <<"d","r","i","v","e","w","a","y">>,
     <<"b","l","o","c","k">>,
     <<"c","a","r">>,
     <<"v","e","h","i","c","l","e">>,
     <<"p","e","r","m","i","t">>,
     <<"m","e","t","e","r">> >>

\* noise, loud, music, bark, construction, sound
noise_words ==
  << <<"n","o","i","s","e">>,
     <<"l","o","u","d">>,
     <<"m","u","s","i","c">>,
     <<"b","a","r","k">>,
     <<"c","o","n","s","t","r","u","c","t","i","o","n">>,
     <<"s","o","u","n","d">> >>

\* permit, license, build, construction, renovation, addition
permits_words ==
  << <<"p","e","r","m","i","t">>,
     <<"l","i","c","e","n","s","e">>,
     <<"b","u","i","l","d">>,
     <<"c","o","n","s","t","r","u","c","t","i","o","n">>,
     <<"r","e","n","o","v","a","t","i","o","n">>,
     <<"a","d","d","i","t","i","o","n">> >>

\* road, street, pothole, light, water, sewer, utility
infrastructure_words ==
  << <<"r","o","a","d">>,
     <<"s","t","r","e","e","t">>,
     <<"p","o","t","h","o","l","e">>,
     <<"l","i","g","h","t">>,
     <<"w","a","t","e","r">>,
     <<"s","e","w","e","r">>,
     <<"u","t","i","l","i","t","y">> >>

\* business, commercial, shop, store, restaurant
business_words ==
  << <<"b","u","s","i","n","e","s","s">>,
     <<"c","o","m","m","e","r","c","i","a","l">>,
     <<"s","h","o","p">>,
     <<"s","t","o","r","e">>,
     <<"r","e","s","t","a","u","r","a","n","t">> >>

\* religious, temple, church, mosque, festival, ceremony, cultural
religious_events_words ==
  << <<"r","e","l","i","g","i","o","u","s">>,
     <<"t","e","m","p","l","e">>,
     <<"c","h","u","r","c","h">>,
     <<"m","o","s","q","u","e">>,
     <<"f","e","s","t","i","v","a","l">>,
     <<"c","e","r","e","m","o","n","y">>,
     <<"c","u","l","t","u","r","a","l">> >>

\* neighbor, dispute, fence, property, boundary, conflict
neighbor_dispute_words ==
  << <<"n","e","i","g","h","b","o","r">>,
     <<"d","i","s","p","u","t","e">>,
     <<"f","e","n","c","e">>,
     <<"p","r","o","p","e","r","t","y">>,
     <<"b","o","u","n","d","a","r","y">>,
     <<"c","o","n","f","l","i","c","t">> >>

\* environment, pollution, air, water, waste, dumping, recycle
environmental_words ==
  << <<"e","n","v","i","r","o","n","m","e","n","t">>,
     <<"p","o","l","l","u","t","i","o","n">>,
     <<"a","i","r">>,
     <<"w","a","t","e","r">>,
     <<"w","a","s","t","e">>,
     <<"d","u","m","p","i","n","g">>,
     <<"r","e","c","y","c","l","e">> >>

\* classify_issue with the permits branch written before the noise branch.
classify_issue_permits_first(description) ==
    LET description_lower == Lower(description) IN
    IF AnyWordIn(parking_words, description_lower) THEN "parking"
    ELSE IF AnyWordIn(permits_words, description_lower) THEN "permits"
    ELSE IF AnyWordIn(noise_words, description_lower) THEN "noise"
    ELSE IF AnyWordIn(infrastructure_words, description_lower) THEN "infrastructure"
    ELSE IF AnyWordIn(business_words, description_lower) THEN "business"
    ELSE IF AnyWordIn(religious_events_words, description_lower) THEN "religious_events"
    ELSE IF AnyWordIn(neighbor_dispute_words, description_lower) THEN "neighbor_dispute"
    ELSE IF AnyWordIn(environmental_words, description_lower) THEN "environmental"
    ELSE "infrastructure"

classify_issue(description) ==
    LET description_lower == Lower(description) IN
    IF AnyWordIn(parking_words, description_lower) THEN "parking"
    ELSE IF AnyWordIn(noise_words, description_lower) THEN "noise"
    ELSE IF AnyWordIn(permits_words, description_lower) THEN "permits"
    ELSE IF AnyWordIn(infrastructure_words, description_lower) THEN "infrastructure"
    ELSE IF AnyWordIn(business_words, description_lower) THEN "business"
    ELSE IF AnyWordIn(religious_events_words, description_lower) THEN "religious_events"
    ELSE IF AnyWordIn(neighbor_dispute_words, description_lower) THEN "neighbor_dispute"
    ELSE IF AnyWordIn(environmental_words, description_lower) THEN "environmental"
    ELSE "infrastructure"

---------------------------------------------------------------------------
(* Inbound analyze payloads.  A payload is a JSON object (Dict[str, Any]); *)
(* its description, when present, is a string.                             *)

\* [Neighbors car is blocking my driveway, with the apostrophe]  (38 characters) -> parking
D_parking ==
  <<"N","e","i","g","h","b","o","r","'","s"," ","c","a","r"," ","i","s"," ","b","l","o","c","k","i","n","g"," ","m","y"," ","d","r","i","v","e","w","a","y">>

\* [Loud music every night]  (22 characters) -> noise
D_noise ==
  <<"L","o","u","d"," ","m","u","s","i","c"," ","e","v","e","r","y"," ","n","i","g","h","t">>

\* [Need a building license]  (23 characters) -> permits
D_permits ==
  <<"N","e","e","d"," ","a"," ","b","u","i","l","d","i","n","g"," ","l","i","c","e","n","s","e">>

\* [Pothole on Elm Street]  (21 characters) -> infrastructure
D_infrastructure ==
  <<"P","o","t","h","o","l","e"," ","o","n"," ","E","l","m"," ","S","t","r","e","e","t">>

\* [Restaurant smells bad]  (21 characters) -> business
D_business ==
  <<"R","e","s","t","a","u","r","a","n","t"," ","s","m","e","l","l","s"," ","b","a","d">>

\* [Temple festival crowd]  (21 characters) -> religious_events
D_religious ==
  <<"T","e","m","p","l","e"," ","f","e","s","t","i","v","a","l"," ","c","r","o","w","d">>

\* [Fence boundary conflict]  (23 characters) -> neighbor_dispute
D_neighbor ==
  <<"F","e","n","c","e"," ","b","o","u","n","d","a","r","y"," ","c","o","n","f","l","i","c","t">>

\* [Illegal dumping near the creek]  (30 characters) -> environmental
D_environmental ==
  <<"I","l","l","e","g","a","l"," ","d","u","m","p","i","n","g"," ","n","e","a","r"," ","t","h","e"," ","c","r","e","e","k">>

\* [Something weird happened downtown]  (33 characters) -> infrastructure
D_unrecognized ==
  <<"S","o","m","e","t","h","i","n","g"," ","w","e","i","r","d"," ","h","a","p","p","e","n","e","d"," ","d","o","w","n","t","o","w","n">>

\* [          ]  (10 characters) -> infrastructure
D_blank10 ==
  <<" "," "," "," "," "," "," "," "," "," ">>

\* [a b c d e f g h]  (15 characters) -> infrastructure
D_sparse ==
  <<"a"," ","b"," ","c"," ","d"," ","e"," ","f"," ","g"," ","h">>

\* []  (0 characters)
D_empty ==
  <<>>

\* [   ]  (3 characters)
D_blank3 ==
  <<" "," "," ">>

\* [Too loud]  (8 characters)
D_short ==
  <<"T","o","o"," ","l","o","u","d">>

Payloads ==
    { [ description |-> D_parking ],
      [ description |-> D_parking, priority |-> "high", reporter |-> "anonymous" ],
      [ description |-> D_noise ],
      [ description |-> D_noise, location |-> "Elm St" ],
      [ description |-> D_permits ],
      [ description |-> D_infrastructure, location |-> "Elm St" ],
      [ description |-> D_business ],
      [ description |-> D_religious ],
      [ description |-> D_neighbor ],
      [ description |-> D_environmental ],
      [ description |-> D_unrecognized ],
      [ description |-> D_blank10 ],
      [ description |-> D_sparse ],
      [ location |-> "Elm St" ],
      [ description |-> D_empty ],
      [ description |-> D_blank3 ],
      [ description |-> D_short, location |-> "Elm St" ] }

---------------------------------------------------------------------------
(* What the network can answer.                                            *)

\* Status codes a backend's health endpoint answers with.
HealthCodes ==
    { 200, 204, 500 }

\* Outcomes of `await client.get(url)` in a health probe: a response, or an
\* exception (timeout, connection refused) carrying str(e).
ProbeOutcomes ==
    { [ kind |-> "response", status_code |-> s ] : s \in HealthCodes }
    \cup { [ kind |-> "exception", error |-> "All connection attempts failed" ] }

\* Outcomes of `await client.get(url)` in check_service_health, which also
\* parses the body of a 200 (line 413): that body is JSON or it is not.  A
\* 204 has no body and the body of a 500 is not read.
CheckOutcomes ==
    { [ kind |-> "response", status_code |-> 200, json |-> j ] : j \in BOOLEAN }
    \cup { [ kind |-> "response", status_code |-> s, json |-> FALSE ] :
              s \in HealthCodes \ { 200 } }
    \cup { [ kind |-> "exception", error |-> "All connection attempts failed" ] }

\* A backend that echoes the JSON it was sent.
EchoBody(json) ==
    [ echo |-> json ]

\* A backend body whose field names collide with the gateway's own.
CollidingBody ==
    [ gateway_info |-> [ service |-> "parking-service", version |-> "9.9.9",
                         classification |-> "backend-says",
                         routed_to |-> "backend-says",
                         routing_time_ms |-> "backend-elapsed" ],
      service_response |-> [ nested |-> "backend" ],
      total_processing_time_ms |-> "backend-elapsed",
      timestamp |-> "backend-utcnow",
      analysis |-> "recommendation" ]

Json(value) ==
    [ json |-> TRUE, value |-> value ]

NotJson ==
    [ json |-> FALSE, text |-> "<html>Bad Gateway</html>" ]

\* The client without a timeout: httpx.AsyncClient(timeout=None).
AnalyzeClientUnbounded ==
    [ no_timeout |-> TRUE ]

\* line 353: httpx.AsyncClient(timeout=30.0)
AnalyzeClient ==
    [ timeout |-> 30 ]

\* The exception httpx raises when the client's timeout runs out.
ReadTimeout ==
    [ kind |-> "exception", error |-> "ReadTimeout" ]

\* Outcomes of `await client.post(service_url, json=...)` for one call: a
\* response, a connection failure, or, for a client that has a timeout,
\* the timeout running out.
Replies(call) ==
    { [ kind |-> "response", status_code |-> 200, content |-> Json(EchoBody(call.json)) ],
      [ kind |-> "response", status_code |-> 200, content |-> Json(CollidingBody) ],
      [ kind |-> "response", status_code |-> 200, content |-> NotJson ],
      [ kind |-> "response", status_code |-> 201, content |-> Json(EchoBody(call.json)) ],
      [ kind |-> "response", status_code |-> 500, content |-> Json([ detail |-> "Analysis failed" ]) ],
      [ kind |-> "exception", error |-> "All connection attempts failed" ] }
    \cup ( IF "timeout" \in DOMAIN call.client THEN { ReadTimeout } ELSE { } )

---------------------------------------------------------------------------
(* update_service_health_cache, main.py 141-163.                           *)

\* line 152
HealthStatus(status_code) ==
    IF status_code = 200 THEN "healthy" ELSE "unhealthy"

\* The entry mutated field by field: the new probe's fields are written
\* into the dict already in the cache, which keeps the fields the new probe
\* does not set.
SnapshotPatched(service_config, outcome) ==
    LET service_name == CHOOSE name \in DOMAIN registry :
                            registry[name] = service_config
        old == Get(service_health_cache, service_name, << >>)
        new == IF outcome.kind = "response"
               THEN [ status |-> HealthStatus(outcome.status_code),
                      response_code |-> outcome.status_code,
                      last_check |-> now,
                      url |-> service_config.url ]
               ELSE [ status |-> "unreachable",
                      error |-> outcome.error,
                      last_check |-> now,
                      url |-> service_config.url ]
    IN [ key \in DOMAIN old \cup DOMAIN new |->
           IF key \in DOMAIN new THEN new[key] ELSE old[key] ]

\* The dict stored for one probed service, lines 151-163.  last_check is
\* the clock read when the probe has returned.
Snapshot(service_config, outcome) ==
    IF outcome.kind = "response"
    THEN [ status |-> HealthStatus(outcome.status_code),
           response_code |-> outcome.status_code,
           last_check |-> now,
           url |-> service_config.url ]
    ELSE [ status |-> "unreachable",
           error |-> outcome.error,
           last_check |-> now,
           url |-> service_config.url ]

\* The assignment rebinding the cache to a dict holding this entry alone.
StoreAlone(cache, service_name, snapshot) ==
    [ name \in { service_name } |-> snapshot ]

\* service_health_cache[service_name] = snapshot
Store(cache, service_name, snapshot) ==
    [ name \in DOMAIN cache \cup { service_name } |->
        IF name = service_name THEN snapshot ELSE cache[name] ]

\* No refresh is running.  A running one holds its caller, the position of
\* the loop and the outcome of the probe that returned last.
IdleRefresh ==
    [ pc |-> "idle", owner |-> "none", idx |-> 0, outcome |-> [ kind |-> "none" ] ]

\* Lines 146-149: the probes that have been issued and not yet answered.
\* The loop awaits each client.get before it issues the next.
ProbesInFlight ==
    IF refresh.pc = "probing" THEN { Items(registry)[refresh.idx] } ELSE { }

\* The services whose entry the running refresh has already replaced.
Refreshed ==
    IF refresh.pc = "probing"
    THEN { Items(registry)[i] : i \in 1 .. (refresh.idx - 1) }
    ELSE { }

\* The environment bound: a probe may fail only while fewer than
\* MaxUnhealthy other services are non-healthy in the cache.
MayFail(service_name) ==
    Cardinality({ name \in DOMAIN service_health_cache \ { service_name } :
                    service_health_cache[name].status # "healthy" }) < MaxUnhealthy

---------------------------------------------------------------------------
(* analyze_civic_issue, main.py 309-393.                                   *)

MIN_DESCRIPTION_LENGTH ==
    10

HTTPException(status_code, detail) ==
    [ status_code |-> status_code, detail |-> detail ]

NoRequest ==
    [ no_request |-> TRUE ]

NoRecord ==
    [ none |-> TRUE ]

NotRead ==
    [ read |-> FALSE ]

NoReply ==
    [ kind |-> "none" ]

NoResponse ==
    [ status_code |-> 0 ]

IdleReq ==
    [ pc |-> "idle", request |-> NoRequest, prev |-> NoRecord,
      classified |-> "none", health |-> NotRead, calls |-> << >>,
      reply |-> NoReply, response |-> NoResponse ]

\* Classification that falls back to the catch-all service when the
\* classified service is not healthy in the cache.
ClassifiedServiceWithFallback(request) ==
    LET category == classify_issue(Get(request, "description", << >>)) IN
    IF /\ category \in DOMAIN service_health_cache
       /\ service_health_cache[category].status # "healthy"
    THEN "infrastructure"
    ELSE category

\* lines 323, 333: the description is the only part of the request that
\* classification reads.
ClassifiedService(request) ==
    classify_issue(Get(request, "description", << >>))

\* The registry gate reading the shipped table instead of the deployed one.
NotRegisteredInShippedTable(classified_service) ==
    classified_service \notin DOMAIN CIVIC_SERVICES

\* line 339
NotRegistered(classified_service) ==
    classified_service \notin DOMAIN registry

\* The health gate rejecting only unreachable services.
IsNotUnreachable(service_health) ==
    Get(service_health, "status", "none") # "unreachable"

\* line 345
IsHealthy(service_health) ==
    Get(service_health, "status", "none") = "healthy"

\* The URL built with the health path (as on line 148) instead of the
\* analyze path.
ServiceUrlWithHealthPath(service_config) ==
    service_config.url \o service_config.health_endpoint

\* line 354
ServiceUrl(service_config) ==
    service_config.url \o service_config.analyze_endpoint

\* The outbound body rebuilt from the fields the handler reads.
OutboundJsonKnownFields(request) ==
    [ key \in DOMAIN request \cap { "description", "location" } |-> request[key] ]

\* line 358: json=request
OutboundJson(request) ==
    request

\* The backend body merged into the gateway's dict (dict.update).
GatewayResponseMerged(classified_service, service_config, service_response) ==
    LET gateway ==
            [ gateway_info |-> [ service |-> SERVICE_NAME,
                                 version |-> SERVICE_VERSION,
                                 classification |-> classified_service,
                                 routed_to |-> service_config.name,
                                 routing_time_ms |-> "elapsed" ],
              total_processing_time_ms |-> "elapsed",
              timestamp |-> "utcnow" ]
    IN [ key \in DOMAIN gateway \cup DOMAIN service_response |->
           IF key \in DOMAIN service_response
           THEN service_response[key] ELSE gateway[key] ]

\* lines 373-384
GatewayResponse(classified_service, service_config, service_response) ==
    [ gateway_info |-> [ service |-> SERVICE_NAME,
                         version |-> SERVICE_VERSION,
                         classification |-> classified_service,
                         routed_to |-> service_config.name,
                         routing_time_ms |-> "elapsed" ],
      service_response |-> service_response,
      total_processing_time_ms |-> "elapsed",
      timestamp |-> "utcnow" ]

\* The handler issuing the POST right after classification, before the
\* description is validated and before the health cache is read.
AnalyzePrefixDispatchFirst(request) ==
    LET classified_service == ClassifiedService(request)
        frame == [ IdleReq EXCEPT !.request = request,
                                  !.classified = classified_service ]
    IN
    IF NotRegistered(classified_service)
    THEN [ frame EXCEPT
             !.pc = "done",
             !.response = HTTPException(503, "Service " \o classified_service
                                               \o " not available") ]
    ELSE [ frame EXCEPT
             !.pc = "awaiting",
             !.calls = << [ url |-> ServiceUrl(registry[classified_service]),
                            json |-> OutboundJson(request),
                                client |-> AnalyzeClient ] >> ]

\* Lines 319-360, up to the first await: validation, classification, the
\* registry and health-cache gates, and the outbound POST being issued.
\* The result is the handler's frame: its locals and, when it has already
\* raised, its response.
AnalyzePrefix(request) ==
    LET description == Get(request, "description", << >>)
        frame == [ IdleReq EXCEPT !.request = request ]
        Raise(f, status_code, detail) ==
            [ f EXCEPT !.pc = "done", !.response = HTTPException(status_code, detail) ]
    IN
    IF description = << >>
    THEN Raise(frame, 400, "Description is required")
    ELSE IF Len(description) < MIN_DESCRIPTION_LENGTH
    THEN Raise(frame, 400, "Description too short (minimum 10 characters)")
    ELSE
      LET classified_service == ClassifiedService(request)
          classified == [ frame EXCEPT !.classified = classified_service ]
      IN
      IF NotRegistered(classified_service)
      THEN Raise(classified, 503, "Service " \o classified_service \o " not available")
      ELSE IF classified_service \notin DOMAIN registry
      THEN \* CIVIC_SERVICES[classified_service] raises KeyError, caught at 391
           Raise(classified, 500, "Gateway error: '" \o classified_service \o "'")
      ELSE
        LET service_config == registry[classified_service]
            service_health == Get(service_health_cache, classified_service,
                                  [ status |-> "unknown" ])
            checked == [ classified EXCEPT !.health = service_health ]
        IN
        IF ~ IsHealthy(service_health)
        THEN Raise(checked, 503,
                   "Service " \o classified_service \o " is "
                       \o Get(service_health, "status", "unavailable"))
        ELSE [ checked EXCEPT
                 !.pc = "awaiting",
                 !.calls = << [ url |-> ServiceUrl(service_config),
                                json |-> OutboundJson(request),
                                client |-> AnalyzeClient ] >> ]

\* line 368: str(e) of the exception response.json() raises on a body that
\* is not JSON.
JSONDecodeError ==
    "Expecting value: line 1 column 1 (char 0)"

\* The outbound calls when the POST is issued again after a failed attempt.
OutboundCallsWithRetry(frame, reply) ==
    IF reply.kind = "exception" \/ reply.status_code # 200
    THEN Append(frame.calls, frame.calls[1])
    ELSE frame.calls

\* Lines 356-393: the outbound calls the handler has issued by the time it
\* ends.  client.post is awaited once (356-360) and nothing on the paths
\* after it (362-393) issues another call.
OutboundCallsAtEnd(frame, reply) ==
    frame.calls

\* Lines 356-393, from the await of client.post to the handler's end.
AnalyzeCompletion(frame, reply) ==
    LET classified_service == frame.classified
        service_config == registry[classified_service]
    IN
    IF reply.kind = "exception"
    THEN HTTPException(500, "Gateway error: " \o reply.error)
    ELSE IF reply.status_code # 200
    THEN HTTPException(502, "Service " \o classified_service
                              \o " returned error: " \o ToString(reply.status_code))
    ELSE IF ~ reply.content.json
    THEN \* response.json() raises, caught at 391
         HTTPException(500, "Gateway error: " \o JSONDecodeError)
    ELSE [ status_code |-> 200,
           content |-> GatewayResponse(classified_service, service_config,
                                       reply.content.value) ]

---------------------------------------------------------------------------
(* health_check, get_metrics and check_service_health, main.py 246-279     *)
(* and 395-451.                                                            *)

IdleIntro ==
    [ pc |-> "idle", endpoint |-> "none", service_name |-> "none",
      probes |-> << >>, outcome |-> NoReply, response |-> NoResponse ]

\* The parking service's POST /analyze frame: no request received.
IdleParking ==
    [ pc |-> "idle", body |-> << >>, handler_calls |-> 0, agent_calls |-> 0,
      response |-> NoResponse ]

\* The orchestrator's agent graph is not running.
IdleOrch ==
    [ pc |-> "idle", state |-> NoRecord, supplied |-> "none", path |-> << >>,
      answer |-> << >>, response |-> NoRecord ]

\* The count taking every entry that is not unreachable as healthy.
ReachableServices(cache) ==
    Cardinality({ name \in DOMAIN cache :
                    Get(cache[name], "status", "none") # "unreachable" })

\* lines 252-253 and 430-431: the cache entries whose status is healthy.
HealthyServices(cache) ==
    Cardinality({ name \in DOMAIN cache :
                    Get(cache[name], "status", "none") = "healthy" })

\* line 256
GatewayStatus(healthy_services) ==
    IF healthy_services > 0 THEN "healthy" ELSE "degraded"

\* lines 249-279: the body GET /health returns in the current state.
health_check ==
    LET healthy_services == HealthyServices(service_health_cache)
        total_services == Cardinality(DOMAIN registry)
    IN
    [ status_code |-> 200,
      content |->
        [ service |-> SERVICE_NAME,
          status |-> GatewayStatus(healthy_services),
          version |-> SERVICE_VERSION,
          uptime_seconds |-> "elapsed",
          downstream_services |->
            [ total |-> total_services,
              healthy |-> healthy_services,
              unhealthy |-> total_services - healthy_services ],
          checks |->
            [ gateway |-> [ status |-> "healthy",
                            details |-> "API Gateway operational" ],
              service_registry |->
                [ status |-> IF total_services > 0 THEN "healthy" ELSE "error",
                  details |-> ToString(total_services) \o " services registered" ] ],
          timestamp |-> "utcnow" ] ]

\* line 446: round(healthy / total * 100, 1), kept in tenths of a percent.
\* No registry of eight or fewer services gives an exact half to round.
AvailabilityTenths(healthy_services, total) ==
    (2000 * healthy_services + total) \div (2 * total)

\* lines 427-451: the body GET /metrics returns in the current state.
get_metrics ==
    LET healthy_services == HealthyServices(service_health_cache)
        total == Cardinality(DOMAIN registry)
    IN
    [ status_code |-> 200,
      content |->
        [ gateway |-> [ service |-> SERVICE_NAME,
                        version |-> SERVICE_VERSION,
                        uptime_seconds |-> "elapsed",
                        uptime_formatted |-> "elapsed" ],
          services |-> [ total_registered |-> total,
                         healthy |-> healthy_services,
                         unhealthy |-> total - healthy_services,
                         availability_percentage |->
                             AvailabilityTenths(healthy_services, total) ],
          requests |-> [ total |-> "N/A", success_rate |-> "N/A",
                         avg_response_time |-> "N/A" ] ] ]

\* Service names a client asks check_service_health about: the shipped
\* categories and one that no registry holds.
CheckNames ==
    DOMAIN CIVIC_SERVICES \cup { "zoning" }

\* line 411
CheckedStatus(status_code) ==
    IF status_code = 200 THEN "healthy" ELSE "unhealthy"

\* The forced check answering from the cache when it holds an entry.
CheckPrefixFromCache(service_name) ==
    LET frame == [ IdleIntro EXCEPT !.endpoint = "service_health",
                                    !.service_name = service_name ]
    IN
    IF service_name \notin DOMAIN registry
    THEN [ frame EXCEPT
             !.pc = "done",
             !.response = HTTPException(404, "Service " \o service_name \o " not found") ]
    ELSE IF service_name \in DOMAIN service_health_cache
    THEN [ frame EXCEPT
             !.pc = "done",
             !.response = [ status_code |-> 200,
                            content |-> service_health_cache[service_name] ] ]
    ELSE [ frame EXCEPT
             !.pc = "probing",
             !.probes = << [ url |-> registry[service_name].url
                                       \o registry[service_name].health_endpoint ] >> ]

\* Lines 398-406, up to the await of client.get: the registry test and the
\* probe being issued.  The cache is not read.
CheckPrefix(service_name) ==
    LET frame == [ IdleIntro EXCEPT !.endpoint = "service_health",
                                    !.service_name = service_name ]
    IN
    IF service_name \notin DOMAIN registry
    THEN [ frame EXCEPT
             !.pc = "done",
             !.response = HTTPException(404, "Service " \o service_name \o " not found") ]
    ELSE [ frame EXCEPT
             !.pc = "probing",
             !.probes = << [ url |-> registry[service_name].url
                                       \o registry[service_name].health_endpoint ] >> ]

\* Lines 406-424, from the await of client.get to the handler's end.  On a
\* 200 the body is parsed (line 413); a body that is not JSON raises and is
\* answered by the except branch.
CheckCompletion(frame, outcome) ==
    LET service_config == registry[frame.service_name]
        Unreachable(error) ==
            [ status_code |-> 200,
              content |-> [ service |-> frame.service_name,
                            url |-> service_config.url,
                            status |-> "unreachable",
                            error |-> error,
                            timestamp |-> "utcnow" ] ]
    IN
    IF outcome.kind = "exception"
    THEN Unreachable(outcome.error)
    ELSE IF outcome.status_code = 200 /\ ~ outcome.json
    THEN Unreachable(JSONDecodeError)
    ELSE [ status_code |-> 200,
           content |-> [ service |-> frame.service_name,
                         url |-> service_config.url,
                         status |-> CheckedStatus(outcome.status_code),
                         response_code |-> outcome.status_code,
                         response_time_ms |-> "elapsed",
                         details |-> IF outcome.status_code = 200
                                     THEN "body" ELSE "None",
                         timestamp |-> "utcnow" ] ]

---------------------------------------------------------------------------
(* The gateway: initial state and handlers.                                *)

\* Module import: empty cache, startup_event not yet run.
Init ==
    /\ registry = CIVIC_SERVICES
    /\ service_health_cache = << >>
    /\ started = FALSE
    /\ refresh = IdleRefresh
    /\ req = IdleReq
    /\ last_analyzed = NoRecord
    /\ arg = << >>
    /\ ret = "none"
    /\ intro = IdleIntro
    /\ other = IdleReq
    /\ now = 0
    /\ orch = IdleOrch
    /\ parking = IdleParking

\* startup_event, lines 126-139: begins the initial refresh.  The server
\* accepts requests only once the startup event has completed.
Startup ==
    /\ ~ started
    /\ refresh.pc = "idle"
    /\ Len(Items(registry)) > 0
    /\ refresh' = [ IdleRefresh EXCEPT !.pc = "probing", !.owner = "startup", !.idx = 1 ]
    /\ UNCHANGED << registry, service_health_cache, started, req,
                    last_analyzed, arg, ret, intro, parking,
                    other, now, orch >>

\* get_services, lines 281-285: GET /api/v1/services begins a refresh.  The
\* listing it returns when the refresh ends (287-307) is read from the
\* cache and changes no state.
GetServices ==
    /\ started
    /\ refresh.pc = "idle"
    /\ refresh' = [ IdleRefresh EXCEPT !.pc = "probing", !.owner = "services", !.idx = 1 ]
    /\ UNCHANGED << registry, service_health_cache, started, req,
                    last_analyzed, arg, ret, intro, parking,
                    other, now, orch >>

\* update_service_health_cache, lines 146-163: the awaited probe of the
\* service at position idx returns; its entry is replaced and the loop goes
\* on to the next service or ends.
ProbeReturns(outcome) ==
    /\ refresh.pc = "probing"
    /\ LET service_name == Items(registry)[refresh.idx]
           service_config == registry[service_name]
       IN
       /\ Snapshot(service_config, outcome).status = "healthy" \/ MayFail(service_name)
       /\ service_health_cache' =
              Store(service_health_cache, service_name, Snapshot(service_config, outcome))
    /\ IF refresh.idx < Len(Items(registry))
       THEN /\ refresh' = [ refresh EXCEPT !.idx = refresh.idx + 1,
                                           !.outcome = outcome ]
            /\ UNCHANGED started
       ELSE /\ refresh' = IdleRefresh
            /\ started' = TRUE
    /\ UNCHANGED << registry, req, last_analyzed, arg, ret, intro, parking,
                    other, now, orch >>

\* analyze_civic_issue up to its first await.  req.prev is a log entry, not
\* handler state: the last answered request when it had this description,
\* kept beside the fresh classification until the awaited POST returns.
AnalyzeReceive(request) ==
    /\ started
    /\ req.pc = "idle"
    /\ intro.pc = "idle"
    /\ req' = [ AnalyzePrefix(request) EXCEPT
                  !.prev = IF /\ last_analyzed # NoRecord
                              /\ Get(last_analyzed.request, "description", << >>)
                                   = Get(request, "description", << >>)
                           THEN last_analyzed ELSE NoRecord ]
    /\ last_analyzed' = NoRecord
    /\ UNCHANGED << registry, service_health_cache, started, refresh, arg, ret, intro, parking,
                    other, now, orch >>

\* The handler marking the backend unreachable in the cache when its POST
\* raises.
AnalyzeBackendReturnsMarking ==
    /\ req.pc = "awaiting"
    /\ \E reply \in Replies(req.calls[1]) :
          /\ req' = [ req EXCEPT !.pc = "done",
                                 !.prev = NoRecord,
                                 !.calls = OutboundCallsAtEnd(req, reply),
                                 !.reply = reply,
                                 !.response = AnalyzeCompletion(req, reply) ]
          /\ service_health_cache' =
                IF reply.kind = "exception"
                THEN Store(service_health_cache, req.classified,
                           [ status |-> "unreachable", error |-> reply.error,
                             last_check |-> now,
                             url |-> registry[req.classified].url ])
                ELSE service_health_cache
    /\ UNCHANGED << registry, started, refresh, last_analyzed, arg, ret,
                    intro, parking, other, now, orch >>

\* analyze_civic_issue from the awaited POST to its end.
AnalyzeBackendReturns ==
    /\ req.pc = "awaiting"
    /\ \E reply \in Replies(req.calls[1]) :
          req' = [ req EXCEPT !.pc = "done",
                              !.prev = NoRecord,
                              !.calls = OutboundCallsAtEnd(req, reply),
                              !.reply = reply,
                              !.response = AnalyzeCompletion(req, reply) ]
    /\ UNCHANGED << registry, service_health_cache, started, refresh,
                    last_analyzed, arg, ret, intro, parking,
                    other, now, orch >>

\* The response is written to the client; the request is over.
AnalyzeRespond ==
    /\ req.pc = "done"
    /\ last_analyzed' =
          IF req.classified = "none" THEN NoRecord
          ELSE [ request |-> req.request, classified |-> req.classified ]
    /\ req' = IdleReq
    /\ UNCHANGED << registry, service_health_cache, started, refresh, arg, ret, intro, parking,
                    other, now, orch >>

\* health_check, lines 246-279.  The handler has no await: it reads the
\* cache and returns.
HealthCheck ==
    /\ started
    /\ req.pc = "idle"
    /\ intro.pc = "idle"
    /\ intro' = [ IdleIntro EXCEPT !.pc = "done", !.endpoint = "health",
                                   !.response = health_check ]
    /\ last_analyzed' = NoRecord
    /\ UNCHANGED << registry, service_health_cache, started, refresh, req,
                    arg, ret, parking,
                    other, now, orch >>

\* get_metrics, lines 426-451.  The handler has no await.
GetMetrics ==
    /\ started
    /\ req.pc = "idle"
    /\ intro.pc = "idle"
    /\ intro' = [ IdleIntro EXCEPT !.pc = "done", !.endpoint = "metrics",
                                   !.response = get_metrics ]
    /\ last_analyzed' = NoRecord
    /\ UNCHANGED << registry, service_health_cache, started, refresh, req,
                    arg, ret, parking,
                    other, now, orch >>

\* check_service_health up to its await.
CheckReceive(service_name) ==
    /\ started
    /\ req.pc = "idle"
    /\ intro.pc = "idle"
    /\ intro' = CheckPrefix(service_name)
    /\ last_analyzed' = NoRecord
    /\ UNCHANGED << registry, service_health_cache, started, refresh, req,
                    arg, ret, parking,
                    other, now, orch >>

\* check_service_health from the awaited probe to its end.  The handler
\* has no statement that assigns service_health_cache.
CheckProbeReturns(outcome) ==
    /\ intro.pc = "probing"
    /\ intro' = [ intro EXCEPT !.pc = "done",
                               !.outcome = outcome,
                               !.response = CheckCompletion(intro, outcome) ]
    /\ UNCHANGED << registry, service_health_cache, started, refresh, req,
                    last_analyzed, arg, ret, parking,
                    other, now, orch >>

\* The response of health_check, get_metrics or check_service_health is
\* written to the client; the request is over.
IntroRespond ==
    /\ intro.pc = "done"
    /\ intro' = IdleIntro
    /\ UNCHANGED << registry, service_health_cache, started, refresh, req,
                    last_analyzed, arg, ret, parking,
                    other, now, orch >>

Next ==
    \/ Startup
    \/ GetServices
    \/ \E outcome \in ProbeOutcomes : ProbeReturns(outcome)
    \/ \E request \in Payloads : AnalyzeReceive(request)
    \/ AnalyzeBackendReturns
    \/ AnalyzeRespond
    \/ HealthCheck
    \/ GetMetrics
    \/ \E service_name \in CheckNames : CheckReceive(service_name)
    \/ \E outcome \in CheckOutcomes : CheckProbeReturns(outcome)
    \/ IntroRespond

Spec ==
    Init /\ [][Next]_vars

---------------------------------------------------------------------------
(* Deployments whose static registry is not the shipped one.  The registry *)
(* is configuration: a deployment may ship any non-empty part of it, and   *)
(* the classifier still returns all eight categories.                      *)

Restrict(reg, names) ==
    [ name \in names |-> reg[name] ]

Registries ==
    { Restrict(CIVIC_SERVICES, names) :
        names \in { S \in SUBSET DOMAIN CIVIC_SERVICES :
                      Cardinality(S) \in 1 .. MaxRegistered } }

InitRegistry ==
    /\ registry \in Registries
    /\ service_health_cache = << >>
    /\ started = FALSE
    /\ refresh = IdleRefresh
    /\ req = IdleReq
    /\ last_analyzed = NoRecord
    /\ arg = << >>
    /\ ret = "none"
    /\ intro = IdleIntro
    /\ other = IdleReq
    /\ now = 0
    /\ orch = IdleOrch
    /\ parking = IdleParking

SpecRegistry ==
    InitRegistry /\ [][Next]_vars

---------------------------------------------------------------------------
(* A small deployment: two of the shipped services are registered.  It is  *)
(* used where a second analyze request or the clock is followed.           *)

SmallRegistry ==
    Restrict(CIVIC_SERVICES, { "parking", "noise" })

\* Requests for the two services, for a service that is not deployed, and
\* two that validation rejects.
SmallPayloads ==
    { [ description |-> D_parking ],
      [ description |-> D_noise, location |-> "Elm St" ],
      [ description |-> D_environmental ],
      [ description |-> D_short, location |-> "Elm St" ],
      [ location |-> "Elm St" ] }

InitSmall ==
    /\ registry = SmallRegistry
    /\ service_health_cache = << >>
    /\ started = FALSE
    /\ refresh = IdleRefresh
    /\ req = IdleReq
    /\ last_analyzed = NoRecord
    /\ arg = << >>
    /\ ret = "none"
    /\ intro = IdleIntro
    /\ parking = IdleParking
    /\ other = IdleReq
    /\ now = 0
    /\ orch = IdleOrch

\* A second invocation of analyze_civic_issue, up to its first await.
OtherReceive(request) ==
    /\ started
    /\ other.pc = "idle"
    /\ other' = AnalyzePrefix(request)
    /\ UNCHANGED << registry, service_health_cache, started, refresh, req,
                    last_analyzed, arg, ret, intro, parking, now, orch >>

\* The second invocation from its awaited POST to its end.
OtherBackendReturns ==
    /\ other.pc = "awaiting"
    /\ \E reply \in Replies(other.calls[1]) :
          other' = [ other EXCEPT !.pc = "done",
                                  !.calls = OutboundCallsAtEnd(other, reply),
                                  !.reply = reply,
                                  !.response = AnalyzeCompletion(other, reply) ]
    /\ UNCHANGED << registry, service_health_cache, started, refresh, req,
                    last_analyzed, arg, ret, intro, parking, now, orch >>

\* The second invocation's response is written to the client.
OtherRespond ==
    /\ other.pc = "done"
    /\ other' = IdleReq
    /\ UNCHANGED << registry, service_health_cache, started, refresh, req,
                    last_analyzed, arg, ret, intro, parking, now, orch >>

\* Two analyze requests and the refreshes, interleaved at every await.
NextConcurrent ==
    \/ Startup
    \/ GetServices
    \/ \E outcome \in ProbeOutcomes : ProbeReturns(outcome)
    \/ \E request \in SmallPayloads : AnalyzeReceive(request)
    \/ AnalyzeBackendReturns
    \/ AnalyzeRespond
    \/ \E request \in SmallPayloads : OtherReceive(request)
    \/ OtherBackendReturns
    \/ OtherRespond

SpecConcurrent ==
    InitSmall /\ [][NextConcurrent]_vars

\* Time passes: the clock advances by one tick, the length of one
\* health-check cycle.  No handler or task of the gateway is started by it.
Tick ==
    /\ now < MaxClock
    /\ now' = now + 1
    /\ UNCHANGED << registry, service_health_cache, started, refresh, req,
                    last_analyzed, arg, ret, intro, parking, other, orch >>

\* One analyze request, the refreshes, the cache readers and the clock.
NextClock ==
    \/ Startup
    \/ GetServices
    \/ \E outcome \in ProbeOutcomes : ProbeReturns(outcome)
    \/ \E request \in SmallPayloads : AnalyzeReceive(request)
    \/ AnalyzeBackendReturns
    \/ AnalyzeRespond
    \/ HealthCheck
    \/ GetMetrics
    \/ IntroRespond
    \/ Tick

SpecClock ==
    InitSmall /\ [][NextClock]_vars

\* The awaited POST ends because the client's timeout has run out.
AnalyzeTimesOut ==
    /\ AnalyzeBackendReturns
    /\ req'.reply = ReadTimeout

\* The small deployment with the clock, and what the timeouts guarantee.  A
\* backend need not ever answer, so no response is assumed to arrive: the
\* POST is only assumed to end when its client's timeout runs out (line
\* 353).  A probe ends by an answer or by its client's timeout (line 145).
SpecLive ==
    /\ InitSmall
    /\ [][NextClock]_vars
    /\ WF_vars(\E outcome \in ProbeOutcomes : ProbeReturns(outcome))
    /\ WF_vars(AnalyzeTimesOut)

---------------------------------------------------------------------------
(* classify_issue as a pure function: the argument is drawn from a bounded *)
(* set of texts and the call returns.                                      *)

Range(seq) ==
    { seq[i] : i \in DOMAIN seq }

AllKeywords ==
    Range(parking_words) \cup Range(noise_words) \cup Range(permits_words)
    \cup Range(infrastructure_words) \cup Range(business_words)
    \cup Range(religious_events_words) \cup Range(neighbor_dispute_words)
    \cup Range(environmental_words)

LowerToUpper ==
    [ c \in { UpperToLower[u] : u \in DOMAIN UpperToLower } |->
        CHOOSE u \in DOMAIN UpperToLower : UpperToLower[u] = c ]

Upper(text) ==
    [ i \in DOMAIN text |->
        IF text[i] \in DOMAIN LowerToUpper THEN LowerToUpper[text[i]] ELSE text[i] ]

\* Words that hold no keyword, and two that hold one inside ("scary" holds
\* "car", "repair" holds "air").
OtherWords ==
    { <<"h","e","l","l","o">>, <<"s","c","a","r","y">>,
      <<"r","e","p","a","i","r">>, << >> }

\* One or two words: a keyword in either case or another word, then
\* possibly a second, lower-case word.
ClassifyInputs ==
    LET second == AllKeywords \cup OtherWords
        first == second \cup { Upper(w) : w \in AllKeywords }
    IN first \cup { a \o << " " >> \o b : a \in first, b \in second }

InitClassify ==
    /\ registry = CIVIC_SERVICES
    /\ service_health_cache = << >>
    /\ started = FALSE
    /\ refresh = IdleRefresh
    /\ req = IdleReq
    /\ last_analyzed = NoRecord
    /\ arg \in ClassifyInputs
    /\ ret = "none"
    /\ intro = IdleIntro
    /\ other = IdleReq
    /\ now = 0
    /\ orch = IdleOrch
    /\ parking = IdleParking

CallClassify ==
    /\ ret = "none"
    /\ ret' = classify_issue(arg)
    /\ UNCHANGED << registry, service_health_cache, started, refresh, req,
                    last_analyzed, arg, intro, parking,
                    other, now, orch >>

NextClassify ==
    CallClassify

SpecClassify ==
    InitClassify /\ [][NextClassify]_vars

---------------------------------------------------------------------------
(* The parking service (independent-services/civicmind-parking-service):   *)
(* POST /analyze.  FastAPI parses the JSON body into ParkingAnalysisRequest *)
(* before it calls the handler; a body the model rejects is answered 422   *)
(* and the handler does not run.  A JSON value carries its type.           *)

JStr(text) ==
    [ type |-> "str", text |-> text ]

JNull ==
    [ type |-> "null" ]

JObject ==
    [ type |-> "object" ]

\* [Car blocking my driveway]
P_driveway ==
  <<"C","a","r"," ","b","l","o","c","k","i","n","g"," ","m","y"," ","d","r","i","v","e","w","a","y">>

\* [No residential permit]
P_permit ==
  <<"N","o"," ","r","e","s","i","d","e","n","t","i","a","l"," ","p","e","r","m","i","t">>

\* [Truck parked overnight]
P_truck ==
  <<"T","r","u","c","k"," ","p","a","r","k","e","d"," ","o","v","e","r","n","i","g","h","t">>

\* [Meter is broken]
P_general ==
  <<"M","e","t","e","r"," ","i","s"," ","b","r","o","k","e","n">>

\* A field of the body: left out, or sent with a value.
Absent ==
    [ present |-> FALSE ]

Sent(value) ==
    [ present |-> TRUE, value |-> value ]

\* The JSON object holding the fields that were sent.
Body(fields) ==
    [ key \in { k \in DOMAIN fields : fields[k].present } |-> fields[key].value ]

ParkingBodies ==
    { Body(fields) :
        fields \in
          [ description : { Absent, Sent(JNull), Sent(JStr(<< >>)),
                            Sent(JStr(<<" "," "," ">>)), Sent(JStr(P_driveway)),
                            Sent(JStr(P_permit)), Sent(JStr(P_truck)),
                            Sent(JStr(P_general)) },
            location : { Absent, Sent(JStr(<<"O","a","k">>)) },
            priority : { Absent, Sent(JStr(<<"h","i","g","h">>)) },
            citizen_info : { Absent, Sent(JObject), Sent(JStr(<<"x">>)) },
            invalid : { Absent, Sent(JStr(<<"d","a","t","a">>)) } ] }

\* ParkingAnalysisRequest with every field optional.
NoRequiredFields ==
    { }

\* requests.py line 16: Field(...) makes description required; every other
\* field has a default (17-20).
RequiredFields ==
    { "description" }

\* requests.py 16-20: the JSON types each declared field accepts.
FieldTypes ==
    [ description |-> { "str" },
      location |-> { "str", "null" },
      priority |-> { "str", "null" },
      citizen_info |-> { "object", "null" },
      context |-> { "object", "null" } ]

\* The fields pydantic reports an error for: required and missing, or of a
\* type the declaration does not accept.  Undeclared fields are ignored.
ValidationErrors(body) ==
    ( RequiredFields \ DOMAIN body )
    \cup { key \in DOMAIN body \cap DOMAIN FieldTypes :
             body[key].type \notin FieldTypes[key] }

\* The request object the handler receives: declared fields, defaults
\* filled in (requests.py 17-20).
ParkingAnalysisRequest(body) ==
    [ description |-> Get(body, "description", JNull),
      location |-> Get(body, "location", JNull),
      priority |-> Get(body, "priority", JStr(<<"m","e","d","i","u","m">>)),
      citizen_info |-> Get(body, "citizen_info", JNull),
      context |-> Get(body, "context", JNull) ]

\* str.strip() leaving nothing
IsBlank(text) ==
    \A i \in DOMAIN text : text[i] \in { " ", "\t", "\n" }

\* parking_agent.py 87-119: _classify_issue, the subtype it returns.
ParkingSubtype(description) ==
    LET description_lower == Lower(description) IN
    IF AnyWordIn(<< <<"d","r","i","v","e","w","a","y">>, <<"b","l","o","c","k">>,
                    <<"b","l","o","c","k","i","n","g">> >>, description_lower)
    THEN "driveway_blocking"
    ELSE IF AnyWordIn(<< <<"p","e","r","m","i","t">>,
                         <<"r","e","s","i","d","e","n","t","i","a","l">> >>,
                      description_lower)
    THEN "permit_violation"
    ELSE IF AnyWordIn(<< <<"c","o","m","m","e","r","c","i","a","l">>,
                         <<"t","r","u","c","k">>,
                         <<"o","v","e","r","n","i","g","h","t">> >>,
                      description_lower)
    THEN "commercial_violation"
    ELSE "general_parking"

\* POST /analyze from the body's arrival to the response: validation by
\* FastAPI, then analyze_parking_issue (main.py 116-140), which calls
\* ParkingService.analyze_parking_issue (parking_service.py 29-54), which
\* calls ParkingServiceAgent.analyze_issue (parking_agent.py 34-85).  None
\* of the awaits suspends.  Of the agent's response the classification is
\* modelled; its other fields are fixed lists.
analyze_parking_issue(body) ==
    LET frame == [ IdleParking EXCEPT !.pc = "done", !.body = body ]
        request == ParkingAnalysisRequest(body)
    IN
    IF ValidationErrors(body) # { }
    THEN [ frame EXCEPT
             !.response = [ status_code |-> 422,
                            detail |-> ValidationErrors(body) ] ]
    ELSE IF request.description.type # "str"
    THEN \* request.description[:50] raises TypeError (main.py 125)
         [ frame EXCEPT
             !.handler_calls = 1,
             !.response = HTTPException(500, "Internal server error during analysis") ]
    ELSE IF request.description.text = << >> \/ IsBlank(request.description.text)
    THEN \* ValueError (parking_service.py 43-44), caught at main.py 132
         [ frame EXCEPT
             !.handler_calls = 1,
             !.response = HTTPException(400, "Description is required") ]
    ELSE [ frame EXCEPT
             !.handler_calls = 1,
             !.agent_calls = 1,
             !.response =
                 [ status_code |-> 200,
                   content |->
                     [ issue_id |-> "parking-timestamp",
                       classification |->
                         [ type |-> "parking",
                           subtype |-> ParkingSubtype(request.description.text) ],
                       community_first_approach |-> TRUE,
                       estimated_resolution_time |->
                           "1-2 weeks with community approach",
                       follow_up_required |-> TRUE ] ] ]

\* A client has sent a body to POST /analyze.
InitParking ==
    /\ registry = CIVIC_SERVICES
    /\ service_health_cache = << >>
    /\ started = FALSE
    /\ refresh = IdleRefresh
    /\ req = IdleReq
    /\ last_analyzed = NoRecord
    /\ arg = << >>
    /\ ret = "none"
    /\ intro = IdleIntro
    /\ other = IdleReq
    /\ now = 0
    /\ orch = IdleOrch
    /\ parking \in { [ IdleParking EXCEPT !.pc = "received", !.body = body ] :
                       body \in ParkingBodies }

ParkingAnalyze ==
    /\ parking.pc = "received"
    /\ parking' = analyze_parking_issue(parking.body)
    /\ UNCHANGED << registry, service_health_cache, started, refresh, req,
                    last_analyzed, arg, ret, intro,
                    other, now, orch >>

NextParking ==
    ParkingAnalyze

SpecParking ==
    InitParking /\ [][NextParking]_vars

---------------------------------------------------------------------------
(* The orchestrator: civicmind/core/civic_orchestrator.py, called by the   *)
(* analyze endpoint of server.py.                                          *)

\* class IssueType(Enum): the value of each member, as text.
IssueType ==
    [ parking          |-> <<"p","a","r","k","i","n","g">>,
      noise            |-> <<"n","o","i","s","e">>,
      permits          |-> <<"p","e","r","m","i","t","s">>,
      infrastructure   |-> <<"i","n","f","r","a","s","t","r","u","c","t","u","r","e">>,
      home_business    |-> <<"h","o","m","e","_","b","u","s","i","n","e","s","s">>,
      religious_events |-> <<"r","e","l","i","g","i","o","u","s","_","e","v","e","n","t","s">>,
      neighbor_dispute |-> <<"n","e","i","g","h","b","o","r","_","d","i","s","p","u","t","e">>,
      environmental    |-> <<"e","n","v","i","r","o","n","m","e","n","t","a","l">>,
      unknown          |-> <<"u","n","k","n","o","w","n">> ]

\* class Priority(Enum)
Priority ==
    [ low    |-> <<"l","o","w">>,
      medium |-> <<"m","e","d","i","u","m">>,
      high   |-> <<"h","i","g","h">>,
      urgent |-> <<"u","r","g","e","n","t">> ]

\* Enum(value): the member that has the value; ValueError when none has.
EnumLookup(enum, value) ==
    IF \E member \in DOMAIN enum : enum[member] = value
    THEN CHOOSE member \in DOMAIN enum : enum[member] = value
    ELSE "ValueError"

Whitespace ==
    { " ", "\t", "\n" }

\* str.strip()
Strip(text) ==
    LET kept == { i \in DOMAIN text : text[i] \notin Whitespace } IN
    IF kept = { } THEN << >>
    ELSE SubSeq(text,
                CHOOSE i \in kept : \A j \in kept : i <= j,
                CHOOSE i \in kept : \A j \in kept : j <= i)

\* str.split(sep) with a separator of one character: one part more than
\* there are separators, empty parts kept.
Split(text, sep) ==
    LET cuts == { i \in DOMAIN text : text[i] = sep }
        n == Cardinality(cuts)
        cut(k) == IF k = 0 THEN 0
                  ELSE IF k = n + 1 THEN Len(text) + 1
                  ELSE CHOOSE i \in cuts : Cardinality({ j \in cuts : j < i }) = k - 1
    IN [ k \in 1..(n + 1) |-> SubSeq(text, cut(k - 1) + 1, cut(k) - 1) ]

\* CivicState(issue=issue): every other field at its default.
CivicState(issue) ==
    [ issue           |-> issue,
      analysis        |-> << >>,
      recommendations |-> << >>,
      contacts        |-> << >>,
      documents       |-> << >>,
      next_steps      |-> << >>,
      resolution_path |-> "community_first" ]

\* The except branch keeping whatever part of the answer did parse.
_classify_issue_keeping_parsed(state, content) ==
    LET parts == Split(Strip(content), "|")
        issue_type == EnumLookup(IssueType, Lower(Strip(parts[1])))
        priority == IF Len(parts) < 2 THEN "IndexError"
                    ELSE EnumLookup(Priority, Lower(Strip(parts[2])))
        reasoning == IF Len(parts) > 2 THEN parts[3] ELSE << >>
    IN IF issue_type = "ValueError"
       THEN [ state EXCEPT !.issue.issue_type = "unknown" ]
       ELSE IF priority \in { "ValueError", "IndexError" }
       THEN [ state EXCEPT !.issue.issue_type = issue_type ]
       ELSE [ state EXCEPT !.issue.issue_type = issue_type,
                           !.issue.priority = priority,
                           !.analysis = ("classification_reasoning" :> reasoning) @@ @ ]

\* civic_orchestrator.py 154-168: the try block parses both parts before it
\* assigns either; the except branch sets both.
_classify_issue(state, content) ==
    LET parts == Split(Strip(content), "|")
        issue_type == EnumLookup(IssueType, Lower(Strip(parts[1])))
        priority == IF Len(parts) < 2 THEN "IndexError"
                    ELSE EnumLookup(Priority, Lower(Strip(parts[2])))
        reasoning == IF Len(parts) > 2 THEN parts[3] ELSE << >>
    IN IF issue_type = "ValueError" \/ priority \in { "ValueError", "IndexError" }
       THEN [ state EXCEPT !.issue.issue_type = "unknown",
                           !.issue.priority = "medium" ]
       ELSE [ state EXCEPT !.issue.issue_type = issue_type,
                           !.issue.priority = priority,
                           !.analysis = ("classification_reasoning" :> reasoning) @@ @ ]

_analyze_context(state, content) ==
    [ state EXCEPT !.analysis = ("context_analysis" :> content) @@ @ ]

_route_to_agent(state) ==
    [ state EXCEPT
        !.analysis = ("assigned_agent" :> (state.issue.issue_type \o "_agent")) @@ @ ]

\* The lines of the answer, stripped, without the blank ones and the ones
\* that start with #.
_generate_recommendations(state, content) ==
    LET lines == Split(content, "\n")
        stripped == [ k \in DOMAIN lines |-> Strip(lines[k]) ]
    IN [ state EXCEPT
           !.recommendations =
               SelectSeq(stripped, LAMBDA line : line # << >> /\ line[1] # "#") ]

\* The routing that sends permits to the departments as well.
_should_try_community_first_without_documents(state) ==
    IF state.issue.issue_type \in { "neighbor_dispute", "noise", "parking" }
    THEN "community"
    ELSE "legal"

_should_try_community_first(state) ==
    IF state.issue.issue_type \in { "neighbor_dispute", "noise", "parking" }
    THEN "community"
    ELSE IF state.issue.issue_type = "permits"
    THEN "documents"
    ELSE "legal"

\* The mapping of add_conditional_edges.
ConditionalEdges ==
    [ community |-> "community_resolution",
      legal     |-> "legal_escalation",
      documents |-> "prepare_documents" ]

community_steps ==
    << "Try friendly conversation with neighbor",
       "Consult community mediator or HOA",
       "Post in neighborhood app for advice",
       "Attend community meeting if available" >>

_community_resolution(state) ==
    [ state EXCEPT !.next_steps = @ \o community_steps,
                   !.resolution_path = "community_first" ]

legal_steps ==
    << "Contact appropriate city department",
       "File formal complaint if needed",
       "Follow up within specified timeframe",
       "Consider legal consultation if unresolved" >>

_legal_escalation(state) ==
    [ state EXCEPT !.next_steps = @ \o legal_steps,
                   !.resolution_path = "legal_direct" ]

_prepare_documents(state) ==
    [ state EXCEPT !.documents =
        << "Completed application form",
           "Supporting documentation checklist",
           "Contact information for follow-up" >> ]

\* What the model may answer the classification prompt with: a type part
\* alone, or a type and a priority part, with or without a reasoning part.
TypeTexts ==
    { IssueType[member] : member \in DOMAIN IssueType }
    \cup { << " " >> \o Upper(IssueType.parking) \o << " " >>,
           <<"N","o","i","s","e">>,
           <<"b","u","s","i","n","e","s","s">>,
           <<"t","r","a","f","f","i","c">>,
           << >> }

PriorityTexts ==
    { Priority[member] : member \in DOMAIN Priority }
    \cup { << " " >> \o Upper(Priority.high) \o << " " >>,
           <<"c","r","i","t","i","c","a","l">>,
           << >> }

ClassificationAnswers ==
    TypeTexts
    \cup { t \o << "|" >> \o p : t \in TypeTexts, p \in PriorityTexts }
    \cup { t \o << "|" >> \o p \o << "|", "b", "c" >> :
             t \in TypeTexts, p \in PriorityTexts }
    \cup { << "\n" >> \o t \o << "|" >> \o p \o << "|", "b", "|", "c", "\n" >> :
             t \in TypeTexts, p \in PriorityTexts }

ContextAnswers ==
    { << "{", "}" >> }

RecommendationAnswers ==
    { << "#", "a", "\n", " ", "1", ".", "b", " ", "\n", "\n", " ", "\n", "2", ".", "c" >> }

\* IssueRequest.priority as the client may send it; the field defaults to
\* medium, and null is allowed.
RequestPriorities ==
    { JNull, JStr(<< >>), JStr(Priority.low), JStr(Priority.medium),
      JStr(Upper(Priority.high)), JStr(Priority.urgent),
      JStr(<<"a","s","a","p">>) }

D_issue ==
    <<"l","o","u","d"," ","m","u","s","i","c">>

IssueRequests ==
    { [ description |-> D_issue, location |-> JNull, citizen_info |-> JNull,
        priority |-> priority ] : priority \in RequestPriorities }

\* The startup event has built the orchestrator; no issue is being analysed.
InitOrchestrator ==
    /\ registry = CIVIC_SERVICES
    /\ service_health_cache = << >>
    /\ started = FALSE
    /\ refresh = IdleRefresh
    /\ req = IdleReq
    /\ last_analyzed = NoRecord
    /\ arg = << >>
    /\ ret = "none"
    /\ intro = IdleIntro
    /\ other = IdleReq
    /\ now = 0
    /\ parking = IdleParking
    /\ orch = IdleOrch

\* server.py 127-139: the issue is built and handed to process_issue, or the
\* priority is no member of Priority and the handler answers 500.
IssueReceive(request) ==
    /\ orch.pc = "idle"
    /\ LET priority == IF request.priority.type = "str" /\ request.priority.text # << >>
                       THEN EnumLookup(Priority, Lower(request.priority.text))
                       ELSE "medium"
       IN IF priority = "ValueError"
          THEN orch' = [ orch EXCEPT
                 !.pc = "done",
                 !.response = [ status_code |-> 500,
                                detail |-> [ exception |-> "ValueError" ] ] ]
          ELSE orch' = [ orch EXCEPT
                 !.pc = "classify_issue",
                 !.supplied = priority,
                 !.state = CivicState(
                     [ id            |-> "issue_" \o ToString(now),
                       description   |-> request.description,
                       location      |-> request.location,
                       issue_type    |-> "unknown",
                       priority      |-> priority,
                       citizen_info  |-> << >>,
                       timestamp     |-> now,
                       context       |-> JNull ]) ]
    /\ UNCHANGED << registry, service_health_cache, started, refresh, req,
                    last_analyzed, arg, ret, intro, parking,
                    other, now >>

ClassifyIssue ==
    /\ orch.pc = "classify_issue"
    /\ \E content \in ClassificationAnswers :
         orch' = [ orch EXCEPT !.pc = "analyze_context",
                               !.answer = content,
                               !.path = Append(@, "classify_issue"),
                               !.state = _classify_issue(@, content) ]
    /\ UNCHANGED << registry, service_health_cache, started, refresh, req,
                    last_analyzed, arg, ret, intro, parking,
                    other, now >>

AnalyzeContext ==
    /\ orch.pc = "analyze_context"
    /\ \E content \in ContextAnswers :
         orch' = [ orch EXCEPT !.pc = "route_to_agent",
                               !.path = Append(@, "analyze_context"),
                               !.state = _analyze_context(@, content) ]
    /\ UNCHANGED << registry, service_health_cache, started, refresh, req,
                    last_analyzed, arg, ret, intro, parking,
                    other, now >>

RouteToAgent ==
    /\ orch.pc = "route_to_agent"
    /\ orch' = [ orch EXCEPT !.pc = "generate_recommendations",
                             !.path = Append(@, "route_to_agent"),
                             !.state = _route_to_agent(@) ]
    /\ UNCHANGED << registry, service_health_cache, started, refresh, req,
                    last_analyzed, arg, ret, intro, parking,
                    other, now >>

\* The node, then the conditional edge that follows it.
GenerateRecommendations ==
    /\ orch.pc = "generate_recommendations"
    /\ \E content \in RecommendationAnswers :
         LET state == _generate_recommendations(orch.state, content) IN
         orch' = [ orch EXCEPT
                     !.pc = ConditionalEdges[_should_try_community_first(state)],
                     !.path = Append(@, "generate_recommendations"),
                     !.state = state ]
    /\ UNCHANGED << registry, service_health_cache, started, refresh, req,
                    last_analyzed, arg, ret, intro, parking,
                    other, now >>

CommunityResolution ==
    /\ orch.pc = "community_resolution"
    /\ orch' = [ orch EXCEPT !.pc = "END",
                             !.path = Append(@, "community_resolution"),
                             !.state = _community_resolution(@) ]
    /\ UNCHANGED << registry, service_health_cache, started, refresh, req,
                    last_analyzed, arg, ret, intro, parking,
                    other, now >>

LegalEscalation ==
    /\ orch.pc = "legal_escalation"
    /\ orch' = [ orch EXCEPT !.pc = "END",
                             !.path = Append(@, "legal_escalation"),
                             !.state = _legal_escalation(@) ]
    /\ UNCHANGED << registry, service_health_cache, started, refresh, req,
                    last_analyzed, arg, ret, intro, parking,
                    other, now >>

PrepareDocuments ==
    /\ orch.pc = "prepare_documents"
    /\ orch' = [ orch EXCEPT !.pc = "END",
                             !.path = Append(@, "prepare_documents"),
                             !.state = _prepare_documents(@) ]
    /\ UNCHANGED << registry, service_health_cache, started, refresh, req,
                    last_analyzed, arg, ret, intro, parking,
                    other, now >>

\* self.llm.invoke raises: none of the three nodes that call it catches.
LlmRaises ==
    /\ orch.pc \in { "classify_issue", "analyze_context", "generate_recommendations" }
    /\ orch' = [ orch EXCEPT !.pc = "raised" ]
    /\ UNCHANGED << registry, service_health_cache, started, refresh, req,
                    last_analyzed, arg, ret, intro, parking,
                    other, now >>

\* server.py 141-159: the response built from the final state, or 500.
IssueRespond ==
    /\ orch.pc \in { "END", "raised" }
    /\ orch' = [ orch EXCEPT
         !.pc = "done",
         !.response =
            IF orch.pc = "raised"
            THEN [ status_code |-> 500, detail |-> [ exception |-> "LLMError" ] ]
            ELSE [ status_code |-> 200,
                   body |-> [ issue_id        |-> orch.state.issue.id,
                              issue_type      |-> orch.state.issue.issue_type,
                              priority        |-> orch.state.issue.priority,
                              recommendations |-> orch.state.recommendations,
                              contacts        |-> << >>,
                              documents       |-> orch.state.documents,
                              next_steps      |-> orch.state.next_steps,
                              resolution_path |-> orch.state.resolution_path,
                              confidence      |-> "0.85",
                              timestamp       |-> now ] ] ]
    /\ UNCHANGED << registry, service_health_cache, started, refresh, req,
                    last_analyzed, arg, ret, intro, parking,
                    other, now >>

NextOrchestrator ==
    \/ \E request \in IssueRequests : IssueReceive(request)
    \/ ClassifyIssue
    \/ AnalyzeContext
    \/ RouteToAgent
    \/ GenerateRecommendations
    \/ CommunityResolution
    \/ LegalEscalation
    \/ PrepareDocuments
    \/ LlmRaises
    \/ IssueRespond

SpecOrchestrator ==
    InitOrchestrator /\ [][NextOrchestrator]_vars

---------------------------------------------------------------------------
(* Properties.                                                             *)

Description(request) ==
    Get(request, "description", << >>)

NonSpaceCount(text) ==
    Cardinality({ i \in DOMAIN text : text[i] # " " })

Is2xx(status_code) ==
    status_code \div 100 = 2

\* C1: an analyze request whose description is missing, holds only
\* whitespace, or has fewer than 10 non-space characters is answered 400,
\* is not classified and causes no outbound call.
C1_BlankOrSparseRejected ==
    LET description == Description(req.request) IN
    ( /\ req.pc # "idle"
      /\ \/ "description" \notin DOMAIN req.request
         \/ \A i \in DOMAIN description : description[i] = " "
         \/ NonSpaceCount(description) < 10 )
    => /\ req.pc = "done"
       /\ req.response.status_code = 400
       /\ req.classified = "none"
       /\ req.calls = << >>

\* C2: an analyze request whose classified backend's cached snapshot is not
\* healthy is answered 503 "Service X is <status>" with no outbound call;
\* so is every request routed to a backend whose last refresh probe
\* returned a non-2xx status.
C2_UnhealthyFailsFast ==
    LET rejected ==
            /\ req.pc = "done"
            /\ req.response.status_code = 503
            /\ req.response.detail =
                  "Service " \o req.classified \o " is " \o req.health.status
            /\ req.calls = << >>
    IN /\ ( req.health # NotRead /\ req.health.status # "healthy" ) => rejected
       /\ ( /\ req.health # NotRead
            /\ "response_code" \in DOMAIN req.health
            /\ ~ Is2xx(req.health.response_code) ) => rejected

C2_Witness ==
    /\ req.pc = "done"
    /\ req.health # NotRead
    /\ req.health.status = "unhealthy"
    /\ req.health.response_code = 500
    /\ req.response.status_code = 503
    /\ req.calls = << >>

\* C3: a network-level failure of the outbound analyze call is answered 503.
C3_NetworkFailureIs503 ==
    ( req.pc = "done" /\ req.reply.kind = "exception" )
    => req.response.status_code = 503

\* C4: for a backend response with status code s, the analyze request
\* succeeds (200) if s is 2xx and fails with 502 naming s otherwise.
C4_StatusCodeMapping ==
    ( /\ req.pc = "done"
      /\ req.reply.kind = "response"
      /\ req.reply.content.json )
    => IF Is2xx(req.reply.status_code)
       THEN req.response.status_code = 200
       ELSE /\ req.response.status_code = 502
            /\ req.response.detail =
                  "Service " \o req.classified \o " returned error: "
                      \o ToString(req.reply.status_code)

\* C5: on success the response nests the backend's body, unchanged, under
\* service_response, and the gateway-level fields are the gateway's own.
C5_BackendBodyNested ==
    ( req.pc = "done" /\ req.response.status_code = 200 )
    => LET content == req.response.content IN
       /\ DOMAIN content = { "gateway_info", "service_response",
                             "total_processing_time_ms", "timestamp" }
       /\ content.service_response = req.reply.content.value
       /\ content.gateway_info.service = SERVICE_NAME
       /\ content.gateway_info.version = SERVICE_VERSION
       /\ content.gateway_info.routing_time_ms = "elapsed"
       /\ content.total_processing_time_ms = "elapsed"
       /\ content.timestamp = "utcnow"

C5_Witness ==
    /\ req.pc = "done"
    /\ req.response.status_code = 200
    /\ req.reply.content.value = CollidingBody
    /\ req.response.content.service_response = CollidingBody

\* C6: the outbound analyze call carries the inbound payload verbatim, so
\* an echoing backend returns the original request under
\* service_response.echo.
C6_RequestForwardedVerbatim ==
    /\ req.calls # << >> => req.calls[1].json = req.request
    /\ ( /\ req.pc = "done"
         /\ req.response.status_code = 200
         /\ "echo" \in DOMAIN req.reply.content.value )
       => req.response.content.service_response.echo = req.request

C6_Witness ==
    /\ req.pc = "done"
    /\ req.response.status_code = 200
    /\ "echo" \in DOMAIN req.reply.content.value
    /\ "reporter" \in DOMAIN req.request
    /\ req.response.content.service_response.echo.reporter = "anonymous"

\* The order of the (category, keyword-set) pairs.
PriorityOrder ==
    << "parking", "noise", "permits", "infrastructure", "business",
       "religious_events", "neighbor_dispute", "environmental" >>

KeywordsOf(category) ==
    CASE category = "parking" -> parking_words
      [] category = "noise" -> noise_words
      [] category = "permits" -> permits_words
      [] category = "infrastructure" -> infrastructure_words
      [] category = "business" -> business_words
      [] category = "religious_events" -> religious_events_words
      [] category = "neighbor_dispute" -> neighbor_dispute_words
      [] category = "environmental" -> environmental_words

Matching(text) ==
    { k \in DOMAIN PriorityOrder : AnyWordIn(KeywordsOf(PriorityOrder[k]), Lower(text)) }

\* C7: classify_issue returns the first category in priority order with a
\* keyword occurring in the lower-cased description, `infrastructure` when
\* none has one, and the same category whatever the letters' case.
C7_FirstMatchInOrder ==
    ret # "none"
    => /\ IF Matching(arg) = { }
          THEN ret = "infrastructure"
          ELSE /\ ret = PriorityOrder[CHOOSE k \in Matching(arg) :
                                        \A j \in Matching(arg) : k <= j]
       /\ ret = classify_issue(Upper(arg))

C7_Witness ==
    /\ ret = "noise"
    /\ arg # Lower(arg)
    /\ AnyWordIn(permits_words, Lower(arg))
    /\ AnyWordIn(environmental_words, Lower(arg))

\* C8: two requests with the same description are classified alike,
\* whatever their other fields and whatever the health cache held when
\* each was handled.
C8_SameDescriptionSameCategory ==
    ( req.prev # NoRecord /\ req.classified # "none" )
    => /\ Description(req.prev.request) = Description(req.request)
       /\ req.classified = req.prev.classified

C8_Witness ==
    /\ req.prev # NoRecord
    /\ req.classified # "none"
    /\ req.prev.request # req.request
    /\ req.health # NotRead
    /\ req.health.status = "unreachable"

\* C9: an outbound analyze call goes to the analyze endpoint of the
\* descriptor registered under the category classify_issue returned for the
\* description, and the response names that category and that backend.
C9_RoutesToClassifiedBackend ==
    LET category == classify_issue(Description(req.request)) IN
    /\ req.calls # << >>
       => /\ req.classified = category
          /\ category \in DOMAIN registry
          /\ Len(req.calls) = 1
          /\ req.calls[1].url =
                registry[category].url \o registry[category].analyze_endpoint
    /\ ( req.pc = "done" /\ req.response.status_code = 200 )
       => /\ req.calls # << >>
          /\ req.response.content.gateway_info.classification = category
          /\ req.response.content.gateway_info.routed_to = registry[category].name

C9_Witness ==
    /\ req.pc = "done"
    /\ req.response.status_code = 200
    /\ req.classified = "environmental"
    /\ req.calls[1].url = "http://localhost:9307/analyze"
    /\ req.response.content.gateway_info.routed_to = "environmental-service"

\* C10: an analyze request classified to a category with no registered
\* backend is answered 503 "Service X not available" with no outbound call.
C10_UnknownCategoryFailsFast ==
    ( /\ req.pc # "idle"
      /\ req.classified # "none"
      /\ req.classified \notin DOMAIN registry )
    => /\ req.pc = "done"
       /\ req.response.status_code = 503
       /\ req.response.detail = "Service " \o req.classified \o " not available"
       /\ req.calls = << >>
       /\ req.health = NotRead

C10_Witness ==
    /\ req.pc = "done"
    /\ req.classified = "noise"
    /\ "noise" \notin DOMAIN registry
    /\ "parking" \in DOMAIN registry
    /\ req.response.status_code = 503

\* C11: the gateway does not retry.  For every analyze request, whatever its
\* outcome (a 200, a 502, a network failure, a rejection), at most one
\* outbound analyze call has been issued, and a request that got a reply
\* issued exactly one.
C11_SingleAttempt ==
    /\ Len(req.calls) <= 1
    /\ req.reply # NoReply => Len(req.calls) = 1

C11_Witness ==
    /\ req.pc = "done"
    /\ req.reply.kind = "exception"
    /\ req.reply.error = "ReadTimeout"
    /\ req.response.status_code = 500
    /\ Len(req.calls) = 1

\* str(e) of the exception the handler catches on line 391 for this reply;
\* "none" when the reply raises nothing.
ExceptionText(reply) ==
    IF reply.kind = "exception" THEN reply.error
    ELSE IF reply.kind = "response" /\ reply.status_code = 200 /\ ~ reply.content.json
    THEN JSONDecodeError
    ELSE "none"

\* Fixed texts a detail may start with before a variable part.
DetailPrefixes ==
    { "", "Gateway error: ", "Internal error: " }

\* C12: no error response carries internal exception text.  A backend body
\* that is not JSON is answered 500, and the detail of an error answered
\* after an exception is not that exception's text, alone or after a fixed
\* prefix.
C12_NoExceptionTextInErrors ==
    ( req.pc = "done" /\ ExceptionText(req.reply) # "none" )
    => /\ req.response.status_code >= 400
       /\ req.reply.kind = "response" => req.response.status_code = 500
       /\ \A prefix \in DetailPrefixes :
             req.response.detail # prefix \o ExceptionText(req.reply)

\* C13: the status GET /health reports for the gateway is healthy whenever
\* the gateway answers, however many backends are healthy, zero included.
C13_GatewayAlwaysHealthy ==
    ( intro.pc = "done" /\ intro.endpoint = "health" )
    => /\ intro.response.status_code = 200
       /\ intro.response.content.status = "healthy"

\* C14: the forced health check of a name that is not registered is
\* answered 404 without a probe; for a registered name one probe is issued
\* to its health endpoint and the answer is that probe's outcome, whatever
\* the cache holds.
C14_ForcedCheckProbesOrRejects ==
    intro.endpoint = "service_health"
    => IF intro.service_name \notin DOMAIN registry
       THEN /\ intro.pc = "done"
            /\ intro.response.status_code = 404
            /\ intro.probes = << >>
       ELSE /\ Len(intro.probes) = 1
            /\ intro.probes[1].url = registry[intro.service_name].url \o "/health"
            /\ intro.pc = "done"
               => /\ intro.outcome # NoReply
                  /\ intro.outcome.kind = "exception"
                     => /\ intro.response.content.status = "unreachable"
                        /\ intro.response.content.error = intro.outcome.error
                  /\ ( /\ intro.outcome.kind = "response"
                       /\ "response_code" \in DOMAIN intro.response.content )
                     => intro.response.content.response_code
                            = intro.outcome.status_code
                  /\ ( /\ intro.outcome.kind = "response"
                       /\ "response_code" \notin DOMAIN intro.response.content )
                     => /\ intro.outcome.status_code = 200
                        /\ ~ intro.outcome.json

\* The cache says healthy, the fresh probe fails, and the answer is the
\* probe's.
C14_Witness ==
    /\ intro.pc = "done"
    /\ intro.endpoint = "service_health"
    /\ intro.service_name = "noise"
    /\ service_health_cache["noise"].status = "healthy"
    /\ Len(intro.probes) = 1
    /\ intro.outcome.kind = "exception"
    /\ intro.response.content.status = "unreachable"

\* C15: in every state the counts GET /metrics returns satisfy healthy +
\* unhealthy = total registered, healthy is the number of registered
\* backends whose cached status is healthy, and unhealthy is not negative.
C15_MetricsCounts ==
    LET services == get_metrics.content.services IN
    /\ services.total_registered = Cardinality(DOMAIN registry)
    /\ services.healthy + services.unhealthy = services.total_registered
    /\ services.healthy =
          Cardinality({ name \in DOMAIN registry :
                          /\ name \in DOMAIN service_health_cache
                          /\ service_health_cache[name].status = "healthy" })
    /\ services.unhealthy >= 0
    /\ ( intro.pc = "done" /\ intro.endpoint = "metrics" )
       => /\ intro.response.content.services.healthy
               + intro.response.content.services.unhealthy
             = intro.response.content.services.total_registered
          /\ intro.response.content.services.unhealthy >= 0

\* GET /metrics answered while one backend is cached unhealthy.
C15_Witness ==
    /\ intro.pc = "done"
    /\ intro.endpoint = "metrics"
    /\ intro.response = get_metrics
    /\ intro.response.content.services.healthy = 7
    /\ intro.response.content.services.unhealthy = 1
    /\ \E name \in DOMAIN service_health_cache :
          service_health_cache[name].status = "unhealthy"

\* C16: in the parking service a POST /analyze whose body has no
\* description field is answered 422, and neither the handler nor the
\* parking agent's analysis runs for it.
C16_MissingDescriptionIs422 ==
    ( parking.pc = "done" /\ "description" \notin DOMAIN parking.body )
    => /\ parking.response.status_code = 422
       /\ "description" \in parking.response.detail
       /\ parking.handler_calls = 0
       /\ parking.agent_calls = 0

\* The body of test_invalid_parking_request.
C16_Witness ==
    /\ parking.pc = "done"
    /\ parking.body = [ invalid |-> JStr(<<"d","a","t","a">>) ]
    /\ parking.response.status_code = 422
    /\ parking.agent_calls = 0

\* The status the claim gives a probe outcome.
ClaimedStatus(outcome) ==
    IF outcome.kind = "exception" THEN "unreachable"
    ELSE IF Is2xx(outcome.status_code) THEN "healthy"
    ELSE "unhealthy"

\* C17: a probe answered 2xx gives status healthy, one answered with any
\* other code gives unhealthy, and a timeout or connection failure gives
\* unreachable with an error detail, in the refresh of all backends (the
\* cache entries) and in the forced check of one (its answer).
C17_ProbeStatusMapping ==
    /\ \A name \in DOMAIN service_health_cache :
          LET entry == service_health_cache[name] IN
          IF "response_code" \in DOMAIN entry
          THEN entry.status =
                  ClaimedStatus([ kind |-> "response",
                                  status_code |-> entry.response_code ])
          ELSE /\ entry.status = "unreachable"
               /\ "error" \in DOMAIN entry
               /\ entry.error # ""
    /\ ( /\ refresh.pc = "probing"
         /\ refresh.outcome.kind # "none" )
       => service_health_cache[Items(registry)[refresh.idx - 1]].status
             = ClaimedStatus(refresh.outcome)
    /\ ( /\ intro.pc = "done"
         /\ intro.endpoint = "service_health"
         /\ intro.outcome # NoReply )
       => /\ intro.response.content.status = ClaimedStatus(intro.outcome)
          /\ intro.outcome.kind = "exception"
             => /\ "error" \in DOMAIN intro.response.content
                /\ intro.response.content.error # ""

\* C18: a failed probe of backend X in a refresh of all backends only sets
\* the entry of X to unreachable with the error; the refresh goes on to the
\* next backend (or ends normally after the last), and no other entry
\* changes.
C18_ProbeFailureIsolated ==
    [][ \A outcome \in ProbeOutcomes :
          ( outcome.kind = "exception" /\ ProbeReturns(outcome) )
          => LET X == Items(registry)[refresh.idx] IN
             /\ service_health_cache'[X].status = "unreachable"
             /\ service_health_cache'[X].error = outcome.error
             /\ outcome.error # ""
             /\ DOMAIN service_health_cache' = DOMAIN service_health_cache \cup { X }
             /\ \A name \in DOMAIN service_health_cache \ { X } :
                   service_health_cache'[name] = service_health_cache[name]
             /\ IF refresh.idx < Len(Items(registry))
                THEN /\ refresh'.pc = "probing"
                     /\ refresh'.idx = refresh.idx + 1
                     /\ refresh'.owner = refresh.owner
                ELSE /\ refresh'.pc = "idle"
                     /\ started'
      ]_vars

\* The fourth backend's probe failed, the entries before it stand, and the
\* fifth backend's probe is out.
C18_Witness ==
    /\ refresh.pc = "probing"
    /\ refresh.idx = 5
    /\ refresh.outcome.kind = "exception"
    /\ service_health_cache["infrastructure"].status = "unreachable"
    /\ service_health_cache["parking"].status = "healthy"
    /\ ProbesInFlight = { "business" }

\* C19: when the forced check of a registered backend ends, the cache entry
\* of that backend holds the status its probe gave.
C19_ForcedCheckUpdatesCache ==
    [][ ( intro.pc = "probing" /\ intro'.pc = "done" )
        => /\ intro.service_name \in DOMAIN service_health_cache'
           /\ service_health_cache'[intro.service_name].status
                 = intro'.response.content.status
      ]_vars

\* C20: during a refresh of all backends the probes of all backends whose
\* entry has not been replaced yet are in flight together.
C20_ProbesConcurrent ==
    refresh.pc = "probing"
    => ProbesInFlight = DOMAIN registry \ Refreshed

\* The description passes the validation of lines 326-330.
Validated(frame) ==
    /\ Description(frame.request) # << >>
    /\ Len(Description(frame.request)) >= 10

\* C21: an analyze request goes through validation, classification, the
\* health-cache check, the dispatch and the response in that order, leaving
\* only by a failure: a step is reached only when every earlier step of the
\* same request has passed, the outbound call in particular; no step is
\* gone back to, and an answered or failed request changes no more.
C21_StepsInOrder ==
    /\ [] ( /\ req.pc = "idle" => req = IdleReq
            /\ req.classified # "none" => Validated(req)
            /\ req.health # NotRead
               => /\ req.classified # "none"
                  /\ req.classified \in DOMAIN registry
            /\ req.calls # << >>
               => /\ req.health # NotRead
                  /\ req.health.status = "healthy"
            /\ req.pc = "awaiting"
               => /\ req.calls # << >>
                  /\ req.reply = NoReply
                  /\ req.response = NoResponse
            /\ req.reply # NoReply
               => /\ req.calls # << >>
                  /\ req.pc = "done"
            /\ req.pc = "done" => req.response # NoResponse
            /\ ( req.pc = "done" /\ req.response.status_code = 200 )
               => req.reply # NoReply )
    /\ [][ /\ req.pc = "awaiting"
              => /\ req'.pc \in { "awaiting", "done" }
                 /\ req'.request = req.request
                 /\ req'.classified = req.classified
                 /\ req'.health = req.health
                 /\ req'.calls = req.calls
           /\ req.pc = "done" => ( req' = req \/ req' = IdleReq ) ]_vars

\* A request that went through every step.
C21_Witness ==
    /\ req.pc = "done"
    /\ Validated(req)
    /\ req.classified = "religious_events"
    /\ req.health.status = "healthy"
    /\ Len(req.calls) = 1
    /\ req.reply.kind = "response"
    /\ req.response.status_code = 200

\* What a handler that has just read the shared state holds: g is its frame
\* after the step in which it left f.  Classification and gating follow
\* from the request, the registry and the cache of the state it ran in.
ReadsOnly(f, g) ==
    ( f.pc = "idle" /\ g.pc # "idle" )
    => /\ g.classified # "none"
          => g.classified = classify_issue(Description(g.request))
       /\ g.health # NotRead
          => /\ g.classified \in DOMAIN service_health_cache
             /\ g.health = service_health_cache[g.classified]
       /\ g.calls # << >>
          <=> /\ Validated(g)
              /\ classify_issue(Description(g.request)) \in DOMAIN registry
              /\ service_health_cache[classify_issue(Description(g.request))].status
                    = "healthy"

\* C22: a step of an analyze request only reads shared state.  It changes
\* neither the registry nor any cache entry, issues no health probe and
\* leaves the other analyze request as it is, and what it decides follows
\* from its own request and the shared state alone, whatever the other
\* request is doing.
C22_AnalyzeOnlyReads ==
    [][ ( req' # req \/ other' # other )
        => /\ registry' = registry
           /\ service_health_cache' = service_health_cache
           /\ refresh' = refresh
           /\ intro' = intro
           /\ req' # req => other' = other
           /\ other' # other => req' = req
           /\ ReadsOnly(req, req')
           /\ ReadsOnly(other, other')
      ]_vars

\* Two requests in flight for different backends while a refresh runs.
C22_Witness ==
    /\ req.pc = "awaiting"
    /\ other.pc = "awaiting"
    /\ req.classified = "parking"
    /\ other.classified = "noise"
    /\ refresh.pc = "probing"

\* C23: the snapshot an analyze request reads to gate its routing was
\* taken at most one health-check cycle (one tick) before the read, without
\* any client having asked for a listing or a check in between.
C23_SnapshotFresh ==
    [][ ( req.pc = "idle" /\ req'.health # NotRead )
        => /\ "last_check" \in DOMAIN req'.health
           /\ now - req'.health.last_check <= 1
      ]_vars

\* An entry all of whose fields come from one probe of the service.
WholeSnapshot(entry, service_name) ==
    /\ entry.url = registry[service_name].url
    /\ entry.last_check <= now
    /\ \/ /\ DOMAIN entry = { "status", "response_code", "last_check", "url" }
          /\ entry.status = IF entry.response_code = 200
                            THEN "healthy" ELSE "unhealthy"
       \/ /\ DOMAIN entry = { "status", "error", "last_check", "url" }
          /\ entry.status = "unreachable"

\* C24: whatever the interleaving of refreshes, readers and the clock, a
\* cache entry is always the whole record of one probe, so is the entry an
\* analyze request has read, and a returning probe replaces the entry by a
\* record holding only its own fields and its own time.
C24_EntryReplacedWhole ==
    /\ [] ( /\ \A name \in DOMAIN service_health_cache :
                  WholeSnapshot(service_health_cache[name], name)
            /\ req.health # NotRead => WholeSnapshot(req.health, req.classified) )
    /\ [][ \A outcome \in ProbeOutcomes :
             ProbeReturns(outcome)
             => LET X == Items(registry)[refresh.idx]
                    entry == service_health_cache'[X]
                IN
                /\ entry.last_check = now
                /\ IF outcome.kind = "response"
                   THEN /\ entry.response_code = outcome.status_code
                        /\ "error" \notin DOMAIN entry
                   ELSE /\ entry.error = outcome.error
                        /\ "response_code" \notin DOMAIN entry
         ]_vars

\* A request holds the healthy snapshot it read, and the entry has since
\* been replaced by a later failed probe's.
C24_Witness ==
    /\ req.pc = "awaiting"
    /\ req.health.status = "healthy"
    /\ service_health_cache[req.classified].status = "unreachable"
    /\ service_health_cache[req.classified].last_check > req.health.last_check
    /\ "response_code" \notin DOMAIN service_health_cache[req.classified]

\* C25: every analyze request that waits for its backend is eventually
\* answered or failed, and every refresh that is probing eventually
\* finishes, even if no backend ever answers: the timeout of the call ends
\* the step.
C25_CallsEnd ==
    /\ ( req.pc = "awaiting" ) ~> ( req.pc = "done" )
    /\ ( refresh.pc = "probing" ) ~> ( refresh.pc = "idle" )

\* A request failed by the timeout of its POST, a cycle or more after the
\* snapshot that let it through was taken.
C25_Witness ==
    /\ req.pc = "done"
    /\ req.reply = ReadTimeout
    /\ req.response.status_code = 500
    /\ now > req.health.last_check
    /\ refresh.pc = "idle"

\* C26: every category classify_issue returns, the fallback included, has
\* one descriptor in the shipped registry, so the registry gate of the
\* analyze handler lets every classified request through.
C26_EveryCategoryRegistered ==
    ret # "none"
    => /\ registry = CIVIC_SERVICES
       /\ ret \in DOMAIN registry
       /\ Cardinality({ name \in DOMAIN registry : name = ret }) = 1
       /\ ~ NotRegistered(ret)

\* A text without any keyword falls back to a registered category.
C26_Witness ==
    /\ arg = <<"h","e","l","l","o">>
    /\ ret = "infrastructure"
    /\ ret \in DOMAIN registry

\* C27: once startup has completed the cache holds an entry for each
\* registered backend and for no other name, each with status healthy,
\* unhealthy or unreachable, and the status an analyze request reads is one
\* of the three, never unknown.
C27_CacheCoversRegistry ==
    started
    => /\ DOMAIN service_health_cache = DOMAIN registry
       /\ \A name \in DOMAIN service_health_cache :
             service_health_cache[name].status
                 \in { "healthy", "unhealthy", "unreachable" }
       /\ req.health # NotRead
          => req.health.status \in { "healthy", "unhealthy", "unreachable" }

\* A request gated on an unhealthy entry while a later refresh is under way.
C27_Witness ==
    /\ started
    /\ refresh.pc = "probing"
    /\ refresh.owner = "services"
    /\ req.pc = "done"
    /\ req.health # NotRead
    /\ req.health.status = "unhealthy"
    /\ DOMAIN service_health_cache = DOMAIN registry

\* The keyword as text.
W_permit ==
    <<"p","e","r","m","i","t">>

W_water ==
    <<"w","a","t","e","r">>

\* C28: a description that holds permit, in either case, is classified
\* parking and never permits; one that holds water is never classified
\* environmental.
C28_SharedKeywordsGoToFirstList ==
    ret # "none"
    => /\ Contains(Lower(arg), W_permit)
          => /\ ret = "parking"
             /\ ret # "permits"
       /\ Contains(Lower(arg), W_water)
          => /\ ret # "environmental"
             /\ ret \in { "parking", "noise", "permits", "infrastructure" }

\* PERMIT beside a keyword that only the permits list holds.
C28_Witness ==
    /\ arg = Upper(W_permit) \o << " " >> \o <<"l","i","c","e","n","s","e">>
    /\ ret = "parking"

TerminalNodes ==
    { "community_resolution", "legal_escalation", "prepare_documents" }

\* The graph has reached END, or the endpoint has answered from its result.
Processed ==
    \/ orch.pc = "END"
    \/ orch.pc = "done" /\ orch.response.status_code = 200

\* C29: a processed issue has run the four common nodes and then exactly one
\* terminal node, fixed by its issue type alone: neighbor_dispute, noise and
\* parking run community_resolution and end with resolution_path
\* community_first; permits runs prepare_documents, which sets the documents
\* and leaves next_steps empty and resolution_path at community_first; every
\* other type, unknown included, runs legal_escalation and ends with
\* resolution_path legal_direct.
C29_OneTerminalBranchByType ==
    /\ Cardinality({ i \in DOMAIN orch.path : orch.path[i] \in TerminalNodes }) <= 1
    /\ Processed
       => LET state == orch.state
              common == << "classify_issue", "analyze_context", "route_to_agent",
                           "generate_recommendations" >>
          IN CASE state.issue.issue_type \in { "neighbor_dispute", "noise", "parking" }
                    -> /\ orch.path = Append(common, "community_resolution")
                       /\ state.resolution_path = "community_first"
                       /\ state.next_steps = community_steps
                       /\ state.documents = << >>
               [] state.issue.issue_type = "permits"
                    -> /\ orch.path = Append(common, "prepare_documents")
                       /\ Len(state.documents) = 3
                       /\ state.next_steps = << >>
                       /\ state.resolution_path = "community_first"
               [] OTHER
                    -> /\ orch.path = Append(common, "legal_escalation")
                       /\ state.resolution_path = "legal_direct"
                       /\ state.next_steps = legal_steps
                       /\ state.documents = << >>

\* A permits issue answered after prepare_documents.
C29_Witness ==
    /\ orch.pc = "done"
    /\ orch.response.status_code = 200
    /\ orch.response.body.issue_type = "permits"
    /\ orch.path[5] = "prepare_documents"
    /\ orch.response.body.next_steps = << >>
    /\ orch.response.body.resolution_path = "community_first"

\* The members of the enum that part k of the answer names; none when the
\* answer has no such part or the part is no value of the enum.
ParsedAs(enum, k) ==
    LET parts == Split(Strip(orch.answer), "|") IN
    { member \in DOMAIN enum :
        k <= Len(parts) /\ enum[member] = Lower(Strip(parts[k])) }

\* C30: after the classification node the issue has the type and the
\* priority of the answer when both parts parse, and type unknown with
\* priority medium, whatever priority the caller supplied, when either part
\* does not; the later nodes and the response keep the two values.
C30_TypeAndPriorityTogether ==
    Len(orch.path) >= 1
    => LET types == ParsedAs(IssueType, 1)
           priorities == ParsedAs(Priority, 2)
           issue == orch.state.issue
       IN /\ ( types # { } /\ priorities # { } )
             => /\ issue.issue_type \in types
                /\ issue.priority \in priorities
          /\ ( types = { } \/ priorities = { } )
             => /\ issue.issue_type = "unknown"
                /\ issue.priority = "medium"
          /\ ( orch.pc = "done" /\ orch.response.status_code = 200 )
             => /\ orch.response.body.issue_type = issue.issue_type
                /\ orch.response.body.priority = issue.priority

\* An urgent issue whose answer names a valid type and an invalid priority.
C30_Witness ==
    /\ orch.pc = "done"
    /\ orch.supplied = "urgent"
    /\ ParsedAs(IssueType, 1) = { "noise" }
    /\ Len(Split(Strip(orch.answer), "|")) >= 2
    /\ ParsedAs(Priority, 2) = { }
    /\ orch.response.status_code = 200
    /\ orch.response.body.issue_type = "unknown"
    /\ orch.response.body.priority = "medium"

====
